---- MODULE Spec2Model ----
(***************************************************************************)
(* Model of the infrastructure resolution and throttling engine of         *)
(* asnd/sec100:                                                            *)
(*   - the sliding-window RateLimiter of the Telegram bot                  *)
(*     (telegram-bot/services/rate_limiter.py),                            *)
(*   - the resolver and the concurrent fan-out of the bot                  *)
(*     (telegram-bot/services/ip_resolver.py) and of the MCP server        *)
(*     (mcp-server/main.py).                                               *)
(*                                                                         *)
(* Time is counted in ticks, TicksPerSec ticks to the second, so that the  *)
(* float clock of time.time() has sub-second values and int() truncates.   *)
(* Strings that the code compares or sorts (addresses, hostnames) are      *)
(* tuples of code points, compared as Python compares str.                 *)
(***************************************************************************)
EXTENDS Integers, Sequences, FiniteSets, TLC

VARIABLES
    \* ---- RateLimiter (rate_limiter.py) ----
    max_per_minute,   \* self.max_per_minute
    max_per_hour,     \* self.max_per_hour
    admin_user_ids,   \* self.admin_user_ids
    user_queries,     \* self.user_queries: user id -> deque of timestamps (ticks)
    now,              \* the value time.time() returns, in ticks
    nticks,           \* number of clock advances so far (bounds the run)
    ret,              \* what the last check_rate_limit call returned (NoRet after any other step)
    lastDeny,         \* history: the caller's latest denial since its last record_query
    \* ---- resolver, one call (ip_resolver.py / main.py resolve_fqdn) ----
    resolver,         \* "bot": ip_resolver.resolve_fqdn, "mcp": main.resolve_fqdn
    lookup,           \* what socket.getaddrinfo does for the call
    resolved,         \* the return value of the call
    rpc,              \* "call" before the call, "returned" or "raised" after it ("idle": no call)
    timeout,          \* the timeout argument of the call (a fan-out passes it to its workers)
    default_timeout,  \* the process-wide default timeout of the socket module:
                      \* <<>> is None, <<t>> is t seconds
    \* ---- fan-out (resolve_multiple_fqdns / get_operator_active_infrastructure) ----
    mode,             \* "bot": resolve_multiple_fqdns, "mcp": get_operator_active_infrastructure
                      \* ("idle": no call)
    fqdns,            \* the input list of hostnames
    max_workers,      \* size of the thread pool
    futures,          \* one per submitted task: its state, lookup outcome and result
    results,          \* bot: the result dict, a function from hostnames to address lists
    active_results,   \* mcp: the list of (fqdn, ips) pairs, in completion order
    collected,        \* the futures as_completed has yielded so far
    pc,               \* "submit", "collect", "returned", "reported" ("idle": no call)
    \* ---- reports (get_operator_infrastructure*, get_operator_active_infrastructure) ----
    report,           \* bot: the dict a report function returns (NoReport before)
    prior_report,     \* history: the report the other function built before from the same
                      \* hostnames and lookup results (NoReport if none)
    listing,          \* mcp: the (fqdn, ips) pairs in the order the text lists them
    \* ---- one request served by a query handler (handlers/*.py) ----
    command,          \* "country", "mcc", "mnc", "phone" or "operator" ("idle": no request)
    hpc,              \* position of the handler coroutine
    batch,            \* the operators the data store returned, each with what building
                      \* its report will meet
    op_index,         \* the operator the loop is at
    operator_results, \* the reports built so far (operators by position in batch)
    replies,          \* the messages sent to the user
    trace,            \* history: the components the request has passed through
    \* ---- requests passing rate_limit_check (main.py) ----
    requests          \* per request in flight: its caller, its state, when it was checked

rlVars  == <<max_per_minute, max_per_hour, admin_user_ids, user_queries, now, nticks, ret, lastDeny>>
resVars == <<resolver, lookup, resolved, rpc, timeout, default_timeout>>
fanVars == <<mode, fqdns, max_workers, futures, results, active_results, collected, pc>>
repVars == <<report, prior_report, listing>>
cmdVars == <<command, hpc, batch, op_index, operator_results, replies, trace>>
gateVars == <<requests>>
vars    == <<rlVars, resVars, fanVars, repVars, cmdVars, gateVars>>

(***************************************************************************)
(* Bounds of the model                                                     *)
(***************************************************************************)
TicksPerSec == 2      \* clock resolution: ticks per second
MaxLen      == 3      \* record_query is modelled while the deques hold fewer entries in all
MaxTicks    == 3      \* clock advances per run
MaxRaw      == 3      \* longest raw address list of one lookup
MaxHosts    == 3      \* longest input of a fan-out
MaxWorkers  == 2      \* largest configured pool of the bot's fan-out
MaxLiveHosts == 2     \* longest input of the fan-out checked for termination
MaxOps      == 2      \* most operators in the batch of one request
MaxReqs     == 3      \* requests in flight through rate_limit_check
MaxGateChecks == 2    \* requests in flight while the limiter is also checked directly

(***************************************************************************)
(* Program constants                                                       *)
(***************************************************************************)
MinuteWindow        == 60      \* seconds
HourWindow          == 3600    \* seconds
DefaultMaxPerMinute == 10
DefaultMaxPerHour   == 50
McpMaxWorkers       == 10
DefaultTimeout      == 5       \* seconds

(***************************************************************************)
(* Python helpers                                                          *)
(***************************************************************************)
\* int(x) of a float x = n / TicksPerSec: truncation toward zero.
PyInt(n) == IF n >= 0 THEN n \div TicksPerSec ELSE -((-n) \div TicksPerSec)

\* str < str: lexicographic by code point, a proper prefix first.
RECURSIVE StrLess(_, _)
StrLess(s, t) ==
    IF s = <<>> THEN t # <<>>
    ELSE IF t = <<>> THEN FALSE
    ELSE IF Head(s) # Head(t) THEN Head(s) < Head(t)
    ELSE StrLess(Tail(s), Tail(t))

\* sorted(list(S)) of a set S of strings.
RECURSIVE SortedStrs(_)
SortedStrs(S) ==
    IF S = {} THEN <<>>
    ELSE LET m == CHOOSE x \in S : \A y \in S \ {x} : StrLess(x, y)
         IN  <<m>> \o SortedStrs(S \ {m})

Range(s) == {s[i] : i \in DOMAIN s}

(***************************************************************************)
(* RateLimiter                                                             *)
(***************************************************************************)
Users == {1, 2}

\* Faulty variant: the bypass set is never consulted.
is_admin_never(user_id) == FALSE

\* RateLimiter.is_admin
is_admin(user_id) == user_id \in admin_user_ids

\* Faulty variant: nothing is purged.
PurgeOld_KeepsAll(ts, current_time) == ts

\* Faulty variant: an if for the while, at most one entry is removed.
PurgeOld_HeadOnly(ts, current_time) ==
    IF ts # <<>> /\ current_time - Head(ts) > HourWindow * TicksPerSec
    THEN Tail(ts)
    ELSE ts

\* Faulty variant: the age is taken with the wrong sign, nothing is ever old.
PurgeOld_AgeReversed(ts, current_time) ==
    IF ts # <<>> /\ Head(ts) - current_time > HourWindow * TicksPerSec
    THEN Tail(ts)
    ELSE ts

\* Faulty variant: the check appends the time of the attempt itself.
PurgeOld_RecordsAttempt(ts, current_time) ==
    Append(PurgeOld_HeadOnly(ts, current_time), current_time)

\* check_rate_limit, lines 63-65: popleft while the head is older than an hour.
RECURSIVE PurgeOld(_, _)
PurgeOld(ts, current_time) ==
    IF ts # <<>> /\ current_time - Head(ts) > HourWindow * TicksPerSec
    THEN PurgeOld(Tail(ts), current_time)
    ELSE ts

\* line 68
MinuteAgo(current_time) == current_time - MinuteWindow * TicksPerSec

\* Faulty variant: > for >=, an entry exactly 60 seconds old is not counted.
QueriesLastMinute_Exclusive(ts, current_time) ==
    Cardinality({i \in DOMAIN ts : ts[i] > MinuteAgo(current_time)})

\* line 69: sum(1 for ts in user_timestamps if ts >= minute_ago)
QueriesLastMinute(ts, current_time) ==
    Cardinality({i \in DOMAIN ts : ts[i] >= MinuteAgo(current_time)})

\* line 77: next(ts for ts in reversed(user_timestamps) if ts >= minute_ago):
\* the first qualifying entry walking from the right end of the deque.
OldestInMinute(ts, current_time) ==
    LET q == {i \in DOMAIN ts : ts[i] >= MinuteAgo(current_time)}
        i == CHOOSE j \in q : \A k \in q : k <= j
    IN  ts[i]

\* Faulty variant: the age is added instead of subtracted.
MinuteWaitSeconds_SignSlip(current_time, oldest_in_minute) ==
    PyInt(MinuteWindow * TicksPerSec + (current_time - oldest_in_minute))

\* line 78: int(60 - (current_time - oldest_in_minute))
MinuteWaitSeconds(current_time, oldest_in_minute) ==
    PyInt(MinuteWindow * TicksPerSec - (current_time - oldest_in_minute))

\* line 91: int(3600 - (current_time - oldest_timestamp))
HourWaitSeconds(current_time, oldest_timestamp) ==
    PyInt(HourWindow * TicksPerSec - (current_time - oldest_timestamp))

\* Faulty variant: the seconds are reported as they are.
WaitMinutes_AsSeconds(wait_seconds) == wait_seconds

\* line 92: wait_seconds // 60
WaitMinutes(wait_seconds) == wait_seconds \div 60

NoDeny == [user |-> 0, at |-> 0, limit |-> "none", wait_seconds |-> 0, wait |-> 0, ref |-> 0]

NoRet ==
    [call |-> "none", user |-> 0, at |-> 0, before |-> <<>>, allowed |-> FALSE,
     error |-> "none", limit |-> "none", wait_seconds |-> 0, wait |-> 0,
     unit |-> "none", queries_last_minute |-> 0, queries_last_hour |-> 0, ref |-> 0,
     prev |-> NoDeny]

\* The outcome of check_rate_limit(user_id) at current_time on the deque ts
\* (already purged): the returned pair, with the message kept as its fields.
Outcome(user_id, current_time, before, ts) ==
    LET qlm  == QueriesLastMinute(ts, current_time)
        qlh  == Len(ts)
        base == [NoRet EXCEPT !.call = "check", !.user = user_id, !.at = current_time,
                              !.before = before,
                              !.queries_last_minute = qlm, !.queries_last_hour = qlh]
    IN  IF qlm >= max_per_minute
        THEN IF qlm = 0
             THEN [base EXCEPT !.error = "StopIteration"]   \* next() of an exhausted generator
             ELSE LET o == OldestInMinute(ts, current_time)
                      w == MinuteWaitSeconds(current_time, o)
                  IN  [base EXCEPT !.limit = "minute", !.wait_seconds = w, !.wait = w,
                                   !.unit = "seconds", !.ref = o]
        ELSE IF qlh >= max_per_hour
        THEN IF ts = <<>>
             THEN [base EXCEPT !.error = "IndexError"]      \* user_timestamps[0] of an empty deque
             ELSE LET o == Head(ts)
                      w == HourWaitSeconds(current_time, o)
                  IN  [base EXCEPT !.limit = "hour", !.wait_seconds = w,
                                   !.wait = WaitMinutes(w), !.unit = "minutes", !.ref = o]
        ELSE [base EXCEPT !.allowed = TRUE]

Denied(r) == r.call = "check" /\ ~r.allowed /\ r.error = "none"
Raised(r) == r.call = "check" /\ r.error # "none"

\* History: the caller's latest denial, kept while no record_query of that caller
\* follows it; a check reports it beside its own outcome.
WithPrev(r) == [r EXCEPT !.prev = IF lastDeny.user = r.user THEN lastDeny ELSE NoDeny]

NextDeny(r) ==
    IF Denied(r)
    THEN [user |-> r.user, at |-> r.at, limit |-> r.limit,
          wait_seconds |-> r.wait_seconds, wait |-> r.wait, ref |-> r.ref]
    ELSE lastDeny

\* RateLimiter.check_rate_limit(user_id)
check_rate_limit(user_id) ==
    /\ IF is_admin(user_id)
       THEN /\ ret' = [NoRet EXCEPT !.call = "check", !.user = user_id, !.at = now,
                                    !.before = user_queries[user_id], !.allowed = TRUE]
            /\ UNCHANGED user_queries
       ELSE LET ts == PurgeOld(user_queries[user_id], now)
            IN  /\ user_queries' = [user_queries EXCEPT ![user_id] = ts]
                /\ ret' = WithPrev(Outcome(user_id, now, user_queries[user_id], ts))
    /\ lastDeny' = NextDeny(ret')
    /\ UNCHANGED <<max_per_minute, max_per_hour, admin_user_ids, now, nticks, resVars, fanVars, repVars, cmdVars, gateVars>>

\* Entries held over all deques.
TotalQueries == Len(user_queries[1]) + Len(user_queries[2])

\* Faulty variant: one sequence for all callers, every deque gets the timestamp.
record_query_AllCallers(user_id) ==
    /\ TotalQueries < MaxLen
    /\ user_queries' = [u \in Users |-> Append(user_queries[u], now)]
    /\ ret' = NoRet
    /\ lastDeny' = IF lastDeny.user = user_id THEN NoDeny ELSE lastDeny
    /\ UNCHANGED <<max_per_minute, max_per_hour, admin_user_ids, now, nticks, resVars, fanVars, repVars, cmdVars, gateVars>>

\* RateLimiter.record_query(user_id)
record_query(user_id) ==
    /\ TotalQueries < MaxLen
    /\ user_queries' = [user_queries EXCEPT ![user_id] = Append(@, now)]
    /\ ret' = NoRet
    /\ lastDeny' = IF lastDeny.user = user_id THEN NoDeny ELSE lastDeny
    /\ UNCHANGED <<max_per_minute, max_per_hour, admin_user_ids, now, nticks, resVars, fanVars, repVars, cmdVars, gateVars>>

\* The clock: time.time() never goes back; it advances by one of these steps.
Deltas ==
    {1, 10 * TicksPerSec, 50 * TicksPerSec, (HourWindow - 50) * TicksPerSec}

Tick(d) ==
    /\ nticks < MaxTicks
    /\ now' = now + d
    /\ nticks' = nticks + 1
    /\ ret' = NoRet
    /\ UNCHANGED <<max_per_minute, max_per_hour, admin_user_ids, user_queries, lastDeny, resVars, fanVars, repVars, cmdVars, gateVars>>

\* The clock beyond the MaxTicks steps of a run: while a timestamp of a caller
\* that was denied is within the last hour, time.time() goes on to pass the hour.
HourPasses ==
    /\ nticks = MaxTicks
    /\ \E u \in Users :
          /\ lastDeny.user = u
          /\ \E i \in DOMAIN user_queries[u] : now - user_queries[u][i] <= HourWindow * TicksPerSec
    /\ now' = now + HourWindow * TicksPerSec + 1
    /\ ret' = NoRet
    /\ UNCHANGED <<max_per_minute, max_per_hour, admin_user_ids, user_queries, nticks, lastDeny, resVars, fanVars, repVars, cmdVars, gateVars>>

\* A caller that has been denied waits: it sends no request that is recorded
\* (record_query follows an admitting check only, main.py lines 71-79).
RecordUndenied(user_id) ==
    /\ lastDeny.user # user_id
    /\ record_query(user_id)

\* The configured limits: a limit of 0, the small limit 2, and the defaults.
Limits ==
    {<<0, DefaultMaxPerHour>>, <<DefaultMaxPerMinute, 0>>, <<2, DefaultMaxPerHour>>,
     <<DefaultMaxPerMinute, 2>>, <<2, 2>>}

\* RateLimiter.__init__
InitRL ==
    /\ \E p \in Limits : max_per_minute = p[1] /\ max_per_hour = p[2]
    /\ admin_user_ids = {2}
    /\ user_queries = [u \in Users |-> <<>>]
    /\ now = 0
    /\ nticks = 0
    /\ ret = NoRet
    /\ lastDeny = NoDeny

\* RateLimiter.__init__ with no bypassed caller and positive limits.
InitRLCallers ==
    /\ \E p \in {<<2, DefaultMaxPerHour>>, <<DefaultMaxPerMinute, 2>>} :
          max_per_minute = p[1] /\ max_per_hour = p[2]
    /\ admin_user_ids = {}
    /\ user_queries = [u \in Users |-> <<>>]
    /\ now = 0
    /\ nticks = 0
    /\ ret = NoRet
    /\ lastDeny = NoDeny

\* RateLimiter.__init__ with limits of 1 or more: the limit 1 per minute, the
\* limit 2 per hour.
InitRLPositive ==
    /\ \E p \in {<<1, DefaultMaxPerHour>>, <<DefaultMaxPerMinute, 2>>} :
          max_per_minute = p[1] /\ max_per_hour = p[2]
    /\ admin_user_ids = {2}
    /\ user_queries = [u \in Users |-> <<>>]
    /\ now = 0
    /\ nticks = 0
    /\ ret = NoRet
    /\ lastDeny = NoDeny

\* The limiter of a process that serves no request.
IdleRL ==
    /\ max_per_minute = DefaultMaxPerMinute
    /\ max_per_hour = DefaultMaxPerHour
    /\ admin_user_ids = {}
    /\ user_queries = [u \in Users |-> <<>>]
    /\ now = 0
    /\ nticks = 0
    /\ ret = NoRet
    /\ lastDeny = NoDeny

(***************************************************************************)
(* Resolver: resolve_fqdn of the bot and of the MCP server                 *)
(***************************************************************************)
\* Address strings, as code points.
Addr_10_0_0_1  == <<49, 48, 46, 48, 46, 48, 46, 49>>        \* "10.0.0.1"
Addr_10_0_0_10 == <<49, 48, 46, 48, 46, 48, 46, 49, 48>>    \* "10.0.0.10"
Addr_9_0_0_1   == <<57, 46, 48, 46, 48, 46, 49>>            \* "9.0.0.1"
Addr_v6_1      == <<58, 58, 49>>                            \* "::1"
Addrs == {Addr_10_0_0_1, Addr_10_0_0_10, Addr_9_0_0_1, Addr_v6_1}

RECURSIVE SeqsUpTo(_, _)
SeqsUpTo(S, n) ==
    IF n = 0 THEN {<<>>}
    ELSE LET shorter == SeqsUpTo(S, n - 1)
         IN  shorter \cup {Append(q, x) : q \in {r \in shorter : Len(r) = n - 1}, x \in S}

\* What socket.getaddrinfo does: it returns a non-empty list of entries (their
\* addresses, info[4][0], kept here), or raises.
FailureKinds == {"timeout", "gaierror", "error"}
Failed(kind) == [kind |-> kind, addrs |-> <<>>]
Lookups ==
    {[kind |-> "ok", addrs |-> q] : q \in SeqsUpTo(Addrs, MaxRaw) \ {<<>>}}
        \cup {Failed(k) : k \in FailureKinds}
NoLookup == [kind |-> "none", addrs |-> <<>>]

\* Faulty variant: the addresses are deduplicated but left in the order of the lookup.
RECURSIVE FirstOccurrences(_)
FirstOccurrences(q) ==
    IF q = <<>> THEN <<>>
    ELSE LET r == FirstOccurrences(SubSeq(q, 1, Len(q) - 1))
         IN  IF q[Len(q)] \in Range(r) THEN r ELSE Append(r, q[Len(q)])
SortedUnique_Unsorted(addrs) == FirstOccurrences(addrs)

\* ip_resolver.py line 37 / main.py line 52: sorted(list(set(info[4][0] for info in addr_info)))
SortedUnique(addrs) == SortedStrs(Range(addrs))

\* ip_resolver.py resolve_fqdn
resolve_fqdn(lk) ==
    CASE lk.kind = "ok"       -> SortedUnique(lk.addrs)
      [] lk.kind = "timeout"  -> <<>>      \* except socket.timeout
      [] lk.kind = "gaierror" -> <<>>      \* except socket.gaierror
      [] OTHER                -> <<>>      \* except Exception

\* mcp-server/main.py resolve_fqdn
mcp_resolve_fqdn(lk) ==
    IF lk.kind = "ok" THEN SortedUnique(lk.addrs)
    ELSE <<>>                              \* except Exception

\* isinstance(e, cls) for the exception e a failed lookup raises: socket.timeout
\* and socket.gaierror are subclasses of OSError, and every lookup error is an
\* Exception.
IsInstance(kind, cls) == cls = "Exception" \/ cls = kind

\* Faulty variant: the bot's resolver without its last except clause.
BotExcepts_NoCatchAll == <<"timeout", "gaierror">>

\* The except clauses of the two functions, in order.
BotExcepts == <<"timeout", "gaierror", "Exception">>    \* ip_resolver.py lines 39, 41, 44
McpExcepts == <<"Exception">>                           \* main.py line 54

\* The exception of a failed lookup leaves the function: no clause handles it.
Propagates(lk, excepts) ==
    /\ lk.kind # "ok"
    /\ \A i \in DOMAIN excepts : ~IsInstance(lk.kind, excepts[i])

\* The timeouts a call is made with: a short one and the default.
Timeouts == {1, DefaultTimeout}
NoTimeout == <<>>

\* ip_resolver.py line 28: socket.setdefaulttimeout(timeout)
setdefaulttimeout(t) == <<t>>

\* One call of the bot's resolve_fqdn: the default timeout is set (line 28, the
\* first statement of the try), then the lookup is made.
ResolveBot ==
    /\ rpc = "call"
    /\ resolver = "bot"
    /\ default_timeout' = setdefaulttimeout(timeout)
    /\ IF Propagates(lookup, BotExcepts)
       THEN resolved' = resolved /\ rpc' = "raised"
       ELSE resolved' = resolve_fqdn(lookup) /\ rpc' = "returned"
    /\ UNCHANGED <<lookup, resolver, timeout, rlVars, fanVars, repVars, cmdVars, gateVars>>

\* One call of the MCP server's resolve_fqdn.
ResolveMcp ==
    /\ rpc = "call"
    /\ resolver = "mcp"
    /\ IF Propagates(lookup, McpExcepts)
       THEN resolved' = resolved /\ rpc' = "raised"
       ELSE resolved' = mcp_resolve_fqdn(lookup) /\ rpc' = "returned"
    /\ UNCHANGED <<lookup, resolver, timeout, default_timeout, rlVars, fanVars, repVars, cmdVars, gateVars>>

\* A call of resolve_fqdn in a process whose default timeout is None (the
\* interpreter's initial value) or what an earlier call has left.
InitRes ==
    /\ lookup \in Lookups
    /\ resolver \in {"bot", "mcp"}
    /\ resolved = <<>>
    /\ rpc = "call"
    /\ timeout \in Timeouts
    /\ default_timeout \in {NoTimeout} \cup {setdefaulttimeout(t) : t \in Timeouts}

IdleRes ==
    /\ lookup = NoLookup
    /\ resolver = "none"
    /\ resolved = <<>>
    /\ rpc = "idle"
    /\ timeout = DefaultTimeout
    /\ default_timeout = NoTimeout

(***************************************************************************)
(* Fan-out: resolve_multiple_fqdns (bot) and the pool of                   *)
(* get_operator_active_infrastructure (MCP server)                         *)
(***************************************************************************)
\* Hostnames, as code points.
Host_bsf  == <<98, 115, 102>>           \* "bsf"
Host_epdg == <<101, 112, 100, 103>>     \* "epdg"
Host_ims  == <<105, 109, 115>>          \* "ims"
Hostnames == {Host_bsf, Host_epdg, Host_ims}

\* The lookups of a fan-out: two that succeed with different raw lists (one
\* unsorted, with a duplicate) and one that times out. Every other failure
\* gives a worker the same result of resolve_fqdn as the timeout does.
FanLookups ==
    {[kind |-> "ok", addrs |-> <<Addr_9_0_0_1, Addr_10_0_0_1, Addr_9_0_0_1>>],
     [kind |-> "ok", addrs |-> <<Addr_v6_1>>],
     Failed("timeout")}

EmptyDict == [k \in {} |-> <<>>]

\* results[fqdn] = ips
DictSet(d, k, v) == [x \in (DOMAIN d) \cup {k} |-> IF x = k THEN v ELSE d[x]]

Indices == DOMAIN futures
InState(st) == {i \in Indices : futures[i].state = st}

\* The resolver a worker of this pool runs.
WorkerResult(lk) == IF mode = "bot" THEN resolve_fqdn(lk) ELSE mcp_resolve_fqdn(lk)

\* executor.submit(resolve_fqdn, fqdn, timeout) for the next hostname of the input.
Submit ==
    /\ pc = "submit"
    /\ Len(futures) < Len(fqdns)
    /\ futures' = Append(futures,
                         [fqdn |-> fqdns[Len(futures) + 1], state |-> "pending",
                          lookup |-> NoLookup, value |-> <<>>, raised |-> FALSE])
    /\ UNCHANGED <<mode, fqdns, max_workers, results, active_results, collected, pc, rlVars, resVars, repVars, cmdVars, gateVars>>

\* All tasks are submitted: the loop over as_completed begins.
StartCollect ==
    /\ pc = "submit"
    /\ Len(futures) = Len(fqdns)
    /\ pc' = "collect"
    /\ UNCHANGED <<mode, fqdns, max_workers, futures, results, active_results, collected, rlVars, resVars, repVars, cmdVars, gateVars>>

\* Faulty variant: a thread is started for every queued task.
CanStart_Unbounded(i) ==
    /\ i \in InState("pending")
    /\ \A j \in InState("pending") : i <= j

\* ThreadPoolExecutor(max_workers=...): a worker thread takes the oldest queued
\* task; the pool has at most max_workers threads.
CanStart(i) ==
    /\ i \in InState("pending")
    /\ \A j \in InState("pending") : i <= j
    /\ Cardinality(InState("running")) < max_workers

\* A worker takes task i and runs resolve_fqdn up to its lookup: the bot's
\* resolver sets the default timeout first (ip_resolver.py line 28).
WorkerStart(i) ==
    /\ CanStart(i)
    /\ futures' = [futures EXCEPT ![i].state = "running"]
    /\ default_timeout' = IF mode = "bot" THEN setdefaulttimeout(timeout) ELSE default_timeout
    /\ UNCHANGED <<mode, fqdns, max_workers, results, active_results, collected, pc,
                   resolver, lookup, resolved, rpc, timeout, rlVars, repVars, cmdVars, gateVars>>

\* The task's resolve_fqdn returns: its lookup ended in lk.
WorkerFinish(i, lk) ==
    /\ i \in InState("running")
    /\ futures' = [futures EXCEPT ![i].state = "done", ![i].lookup = lk,
                                  ![i].value = WorkerResult(lk)]
    /\ UNCHANGED <<mode, fqdns, max_workers, results, active_results, collected, pc, rlVars, resVars, repVars, cmdVars, gateVars>>

\* Faulty variant: a hostname that did not resolve gets no entry.
BotStore_SkipsEmpty(d, f) == IF f.raised \/ f.value = <<>> THEN d ELSE DictSet(d, f.fqdn, f.value)

\* Faulty variant: a failed lookup discards what was collected before it.
BotStore_FailureResets(d, f) ==
    IF f.raised \/ f.value = <<>> THEN DictSet(EmptyDict, f.fqdn, <<>>)
    ELSE DictSet(d, f.fqdn, f.value)

\* Faulty variant: an entry that exists is not overwritten.
BotStore_KeepsFirst(d, f) ==
    IF f.fqdn \in DOMAIN d THEN d ELSE DictSet(d, f.fqdn, IF f.raised THEN <<>> ELSE f.value)

\* ip_resolver.py lines 76-83: the body of the as_completed loop for future i.
BotStore(d, f) == DictSet(d, f.fqdn, IF f.raised THEN <<>> ELSE f.value)

CollectBot(i) ==
    /\ pc = "collect"
    /\ mode = "bot"
    /\ i \in InState("done") \ collected
    /\ results' = BotStore(results, futures[i])
    /\ collected' = collected \cup {i}
    /\ UNCHANGED <<mode, fqdns, max_workers, futures, active_results, pc, rlVars, resVars, repVars, cmdVars, gateVars>>

\* main.py lines 76-80: the body of the as_completed loop for future i.
McpStore(l, f) == IF f.value # <<>> THEN Append(l, <<f.fqdn, f.value>>) ELSE l

CollectMcp(i) ==
    /\ pc = "collect"
    /\ mode = "mcp"
    /\ i \in InState("done") \ collected
    /\ active_results' = McpStore(active_results, futures[i])
    /\ collected' = collected \cup {i}
    /\ UNCHANGED <<mode, fqdns, max_workers, futures, results, pc, rlVars, resVars, repVars, cmdVars, gateVars>>

\* Faulty variant: the call returns with the first result collected.
Return_Early ==
    /\ pc = "collect"
    /\ collected # {} \/ Indices = {}
    /\ pc' = "returned"
    /\ UNCHANGED <<mode, fqdns, max_workers, futures, results, active_results, collected, rlVars, resVars, repVars, cmdVars, gateVars>>

\* as_completed is exhausted, the with block shuts the pool down, the call returns.
Return ==
    /\ pc = "collect"
    /\ collected = Indices
    /\ pc' = "returned"
    /\ UNCHANGED <<mode, fqdns, max_workers, futures, results, active_results, collected, rlVars, resVars, repVars, cmdVars, gateVars>>

(***************************************************************************)
(* Reports: get_operator_infrastructure and                                *)
(* get_operator_infrastructure_with_all_fqdns (bot), the listing of        *)
(* get_operator_active_infrastructure (MCP server)                         *)
(***************************************************************************)
\* Faulty variant: the hostnames are taken in the order of the input.
SortedList_AsGiven(q) == q

\* sorted(q) of a list of strings: ascending, duplicates kept.
RECURSIVE InsertStr(_, _)
InsertStr(x, q) ==
    IF q = <<>> THEN <<x>>
    ELSE IF StrLess(x, Head(q)) THEN <<x>> \o q
    ELSE <<Head(q)>> \o InsertStr(x, Tail(q))

RECURSIVE SortedList(_)
SortedList(q) == IF q = <<>> THEN <<>> ELSE InsertStr(Head(q), SortedList(Tail(q)))

\* list < list of Python, for lists of strings.
RECURSIVE ListLess(_, _)
ListLess(a, b) ==
    IF a = <<>> THEN b # <<>>
    ELSE IF b = <<>> THEN FALSE
    ELSE IF Head(a) # Head(b) THEN StrLess(Head(a), Head(b))
    ELSE ListLess(Tail(a), Tail(b))

\* tuple < tuple of Python, for (fqdn, ips) pairs.
PairLess(a, b) == IF a[1] # b[1] THEN StrLess(a[1], b[1]) ELSE ListLess(a[2], b[2])

\* sorted(active_results), main.py line 84.
RECURSIVE InsertPair(_, _)
InsertPair(x, q) ==
    IF q = <<>> THEN <<x>>
    ELSE IF PairLess(x, Head(q)) THEN <<x>> \o q
    ELSE <<Head(q)>> \o InsertPair(x, Tail(q))

RECURSIVE SortedPairs(_)
SortedPairs(q) == IF q = <<>> THEN <<>> ELSE InsertPair(Head(q), SortedPairs(Tail(q)))

\* resolution_results.get(fqdn, [])
DictGet(d, k) == IF k \in DOMAIN d THEN d[k] ELSE <<>>

\* Faulty variant: the hostnames are counted once each.
total_fqdns_Distinct(names) == Cardinality(Range(names))

\* ip_resolver.py lines 147 and 200: len(fqdns)
total_fqdns(names) == Len(names)

\* Faulty variant: every entry is marked resolved.
Resolved_Always(ips) == TRUE

\* ip_resolver.py line 188: len(ips) > 0
Resolved(ips) == Len(ips) > 0

\* Faulty variant: a hostname that the (sorted) input names again is listed once.
RECURSIVE ActiveEntries_Distinct(_, _)
ActiveEntries_Distinct(names, d) ==
    IF names = <<>> THEN <<>>
    ELSE LET ips  == DictGet(d, Head(names))
             rest == ActiveEntries_Distinct(Tail(names), d)
         IN  IF ips # <<>> /\ (Tail(names) = <<>> \/ Head(Tail(names)) # Head(names))
             THEN <<[fqdn |-> Head(names), ips |-> ips, resolved |-> TRUE]>> \o rest
             ELSE rest

\* ip_resolver.py lines 131-139: the loop over sorted(fqdns), entries with IPs only.
RECURSIVE ActiveEntries(_, _)
ActiveEntries(names, d) ==
    IF names = <<>> THEN <<>>
    ELSE LET ips  == DictGet(d, Head(names))
             rest == ActiveEntries(Tail(names), d)
         IN  IF ips # <<>>
             THEN <<[fqdn |-> Head(names), ips |-> ips, resolved |-> TRUE]>> \o rest
             ELSE rest

\* Faulty variant: the loop of the active-only report, unresolved entries dropped.
AllEntries_ActiveOnly(names, d) == ActiveEntries(names, d)

\* ip_resolver.py lines 182-189: the loop over sorted(fqdns), every entry.
RECURSIVE AllEntries(_, _)
AllEntries(names, d) ==
    IF names = <<>> THEN <<>>
    ELSE LET ips == DictGet(d, Head(names))
         IN  <<[fqdn |-> Head(names), ips |-> ips, resolved |-> Resolved(ips)]>>
                 \o AllEntries(Tail(names), d)

NoReport == [kind |-> "none"]

\* get_operator_infrastructure, after its resolve_multiple_fqdns call returned;
\* also when it is called for the hostnames the full report was built for and
\* its lookups give the same results.
get_operator_infrastructure ==
    /\ \/ pc = "returned"
       \/ pc = "reported" /\ report.kind = "all" /\ prior_report = NoReport
    /\ mode = "bot"
    /\ report' = [kind |-> "active",
                  total_fqdns |-> total_fqdns(fqdns),
                  active_fqdns |-> ActiveEntries(SortedList(fqdns), results)]
    /\ prior_report' = report
    /\ pc' = "reported"
    /\ UNCHANGED <<mode, fqdns, max_workers, futures, results, active_results, collected,
                   listing, rlVars, resVars, cmdVars, gateVars>>

\* get_operator_infrastructure_with_all_fqdns, after its resolve_multiple_fqdns
\* call returned; also when it is called for the hostnames the active-only
\* report was built for and its lookups give the same results.
get_operator_infrastructure_with_all_fqdns ==
    /\ \/ pc = "returned"
       \/ pc = "reported" /\ report.kind = "active" /\ prior_report = NoReport
    /\ mode = "bot"
    /\ LET all_fqdns    == AllEntries(SortedList(fqdns), results)
           active_count == Cardinality({i \in DOMAIN all_fqdns : all_fqdns[i].resolved})
       IN  report' = [kind |-> "all",
                      total_fqdns |-> total_fqdns(fqdns),
                      active_count |-> active_count,
                      inactive_count |-> Len(fqdns) - active_count,
                      all_fqdns |-> all_fqdns]
    /\ prior_report' = report
    /\ pc' = "reported"
    /\ UNCHANGED <<mode, fqdns, max_workers, futures, results, active_results, collected,
                   listing, rlVars, resVars, cmdVars, gateVars>>

\* main.py lines 82-88: the pairs, sorted, as the text lists them (none when no
\* hostname is active).
ListActive ==
    /\ pc = "returned"
    /\ mode = "mcp"
    /\ listing' = SortedPairs(active_results)
    /\ pc' = "reported"
    /\ UNCHANGED <<mode, fqdns, max_workers, futures, results, active_results, collected,
                   report, prior_report, rlVars, resVars, cmdVars, gateVars>>

IdleRep ==
    /\ report = NoReport
    /\ prior_report = NoReport
    /\ listing = <<>>

\* A call of resolve_multiple_fqdns(fqdns, max_workers, timeout), or the pool of
\* get_operator_active_infrastructure over the hostnames of an operator.
InitFan ==
    /\ mode \in {"bot", "mcp"}
    /\ fqdns \in SeqsUpTo(Hostnames, MaxHosts)
    /\ mode = "mcp" => fqdns # <<>>            \* main.py line 70: if fqdn_rows
    /\ max_workers \in IF mode = "bot" THEN 1..MaxWorkers ELSE {McpMaxWorkers}
    /\ futures = <<>>
    /\ results = EmptyDict
    /\ active_results = <<>>
    /\ collected = {}
    /\ pc = "submit"

IdleFan ==
    /\ mode = "idle"
    /\ fqdns = <<>>
    /\ max_workers = 0
    /\ futures = <<>>
    /\ results = EmptyDict
    /\ active_results = <<>>
    /\ collected = {}
    /\ pc = "idle"

(***************************************************************************)
(* Query handlers of the bot: country_command, mcc_command, mnc_command,   *)
(* phone_command, operator_command, as main() registers them               *)
(***************************************************************************)
Commands == {"country", "mcc", "mnc", "phone", "operator"}

\* What building the report of one operator of the batch meets:
\*   "report"        its hostnames are read and resolved, some are active
\*   "empty_report"  its hostnames are read and resolved, none is active
\*   "no_fqdns"      the data store has no hostname for it
\*   "db_error"      db.get_fqdns_by_operator raises (the data store fails)
\*   "pool_error"    get_operator_infrastructure raises (executor.submit cannot
\*                   start a thread; it is outside the try of lines 78-83)
BuildOutcomes == {"report", "empty_report", "no_fqdns", "db_error", "pool_error"}
Built         == {"report", "empty_report"}
BuildFailures == {"db_error", "pool_error"}

Reply(kind, ops) == [kind |-> kind, operators |-> ops]

\* main.py lines 133-137: the application calls the handler registered for the
\* command.
Dispatch ==
    /\ hpc = "update"
    /\ hpc' = "args"
    /\ trace' = Append(trace, "handler")
    /\ UNCHANGED <<command, batch, op_index, operator_results, replies,
                   rlVars, resVars, fanVars, repVars, gateVars>>

\* The handler reads its arguments (a phone number is parsed): bad input is
\* answered and the handler returns.
ParseArgs(valid) ==
    /\ hpc = "args"
    /\ IF valid
       THEN hpc' = "lookup" /\ UNCHANGED replies
       ELSE hpc' = "done" /\ replies' = Append(replies, Reply("invalid_input", <<>>))
    /\ UNCHANGED <<command, batch, op_index, operator_results, trace,
                   rlVars, resVars, fanVars, repVars, gateVars>>

\* The data-store lookup of the query finds nothing to report: it raises, it
\* returns no row, or (country, operator) it returns several candidates.
LookupFails(outcome) ==
    /\ hpc = "lookup"
    /\ outcome = "ambiguous" => command \in {"country", "operator"}
    /\ trace' = Append(trace, "data_store")
    /\ CASE outcome = "db_error" -> hpc' = "except" /\ UNCHANGED replies
         [] outcome = "no_rows"  -> hpc' = "done" /\ replies' = Append(replies, Reply("no_results", <<>>))
         [] OTHER                -> hpc' = "done" /\ replies' = Append(replies, Reply("choices", <<>>))
    /\ UNCHANGED <<command, batch, op_index, operator_results,
                   rlVars, resVars, fanVars, repVars, gateVars>>

\* The data-store lookup returns the operators of the query (one for
\* operator_command); the loading message is sent.
LookupFinds(b) ==
    /\ hpc = "lookup"
    /\ b # <<>>
    /\ command = "operator" => Len(b) = 1
    /\ trace' = Append(trace, "data_store")
    /\ batch' = b
    /\ op_index' = 1
    /\ replies' = Append(replies, Reply("loading", <<>>))
    /\ hpc' = "loop"
    /\ UNCHANGED <<command, operator_results, rlVars, resVars, fanVars, repVars, gateVars>>

\* One pass of the loop over the operators (country.py lines 119-132, mcc_mnc.py
\* lines 106-116 and 247-259, msisdn.py, operator.py lines 109-129): the
\* hostnames are read, the report is built and appended. An exception leaves
\* the loop for the except clause of the handler.
BuildReport ==
    /\ hpc = "loop"
    /\ op_index <= Len(batch)
    /\ LET o == batch[op_index]
       IN  /\ trace' = trace \o (IF o \in {"db_error", "no_fqdns"} THEN <<"data_store">>
                                  ELSE <<"data_store", "fan_out">>)
           /\ operator_results' = IF o \in Built THEN Append(operator_results, op_index)
                                   ELSE operator_results
           /\ hpc' = IF o \in BuildFailures THEN "except" ELSE "loop"
    /\ op_index' = op_index + 1
    /\ UNCHANGED <<command, batch, replies, rlVars, resVars, fanVars, repVars, gateVars>>

\* After the loop: the reports built are sent, or the answer that there is
\* none (operator_command: also when no hostname of the operator is active).
Respond ==
    /\ hpc = "loop"
    /\ op_index > Len(batch)
    /\ LET none == \/ operator_results = <<>>
                   \/ command = "operator" /\ batch[1] = "empty_report"
       IN  IF none
           THEN hpc' = "done" /\ replies' = Append(replies, Reply("no_results", <<>>))
           ELSE hpc' = "log" /\ replies' = Append(replies, Reply("report", operator_results))
    /\ UNCHANGED <<command, batch, op_index, operator_results, trace,
                   rlVars, resVars, fanVars, repVars, gateVars>>

\* db.log_query after the answer; it may raise as any data-store access.
LogQuery(ok) ==
    /\ hpc = "log"
    /\ trace' = Append(trace, "data_store")
    /\ hpc' = IF ok THEN "done" ELSE "except"
    /\ UNCHANGED <<command, batch, op_index, operator_results, replies,
                   rlVars, resVars, fanVars, repVars, gateVars>>

\* except Exception of the handler (country.py lines 172-177): the generic
\* error message is the answer.
Except ==
    /\ hpc = "except"
    /\ replies' = Append(replies, Reply("error", <<>>))
    /\ hpc' = "done"
    /\ UNCHANGED <<command, batch, op_index, operator_results, trace,
                   rlVars, resVars, fanVars, repVars, gateVars>>

\* An update with one of the query commands has arrived.
InitCmd ==
    /\ command \in Commands
    /\ hpc = "update"
    /\ batch = <<>>
    /\ op_index = 1
    /\ operator_results = <<>>
    /\ replies = <<>>
    /\ trace = <<>>

IdleCmd ==
    /\ command = "idle"
    /\ hpc = "idle"
    /\ batch = <<>>
    /\ op_index = 1
    /\ operator_results = <<>>
    /\ replies = <<>>
    /\ trace = <<>>

(***************************************************************************)
(* rate_limit_check (main.py): the gate a request passes before its query  *)
(***************************************************************************)
\* Faulty variant: the timestamp is not recorded in the step that admits.
Recorded_Deferred(ts, t) == ts

\* rate_limiter.py line 113: self.user_queries[user_id].append(current_time)
Recorded(ts, t) == Append(ts, t)

\* The coroutine of request r runs from its start to its first suspension or
\* to its end: check_rate_limit (line 71); on a denial it is suspended in
\* await reply_text (line 75); on an admission record_query follows (line 79)
\* with no await in between. record_query reads the clock again: e is the time
\* that passed since the clock was read by check_rate_limit.
rate_limit_check(r, e) ==
    /\ requests[r].state = "new"
    /\ \A q \in 1..(r - 1) : requests[q].state # "new"    \* updates are taken in order
    /\ LET user_id == requests[r].user
           before  == user_queries[user_id]
           ts      == IF is_admin(user_id) THEN before ELSE PurgeOld(before, now)
           out     == IF is_admin(user_id)
                      THEN [NoRet EXCEPT !.call = "check", !.user = user_id, !.at = now,
                                         !.before = before, !.allowed = TRUE]
                      ELSE WithPrev(Outcome(user_id, now, before, ts))
       IN  IF out.error # "none"
           THEN /\ e = 0
                /\ user_queries' = [user_queries EXCEPT ![user_id] = ts]
                /\ requests' = [requests EXCEPT ![r].state = "raised", ![r].at = now]
                /\ now' = now
                /\ ret' = out
                /\ lastDeny' = lastDeny
           ELSE IF ~out.allowed
           THEN /\ e = 0
                /\ user_queries' = [user_queries EXCEPT ![user_id] = ts]
                /\ requests' = [requests EXCEPT ![r].state = "replying", ![r].at = now]
                /\ now' = now
                /\ ret' = out
                /\ lastDeny' = NextDeny(out)
           ELSE /\ user_queries' = [user_queries EXCEPT ![user_id] = Recorded(ts, now + e)]
                /\ requests' = [requests EXCEPT ![r].state = "admitted", ![r].at = now + e]
                /\ now' = now + e
                /\ ret' = NoRet
                /\ lastDeny' = IF lastDeny.user = user_id THEN NoDeny ELSE lastDeny
    /\ UNCHANGED <<max_per_minute, max_per_hour, admin_user_ids, nticks,
                   resVars, fanVars, repVars, cmdVars>>

\* The denial message of request r is sent: rate_limit_check returns False.
ReplySent(r) ==
    /\ requests[r].state = "replying"
    /\ requests' = [requests EXCEPT ![r].state = "denied"]
    /\ ret' = NoRet
    /\ UNCHANGED <<max_per_minute, max_per_hour, admin_user_ids, user_queries, now, nticks,
                   lastDeny, resVars, fanVars, repVars, cmdVars>>

\* The limits of the gate: 0, 1, 2 and the defaults.
GateLimits ==
    {<<0, DefaultMaxPerHour>>, <<1, DefaultMaxPerHour>>, <<2, DefaultMaxPerHour>>,
     <<DefaultMaxPerMinute, 2>>}

\* The clock steps between the requests: one tick, the minute, the hour.
GateDeltas == {1, MinuteWindow * TicksPerSec, HourWindow * TicksPerSec}

InitRLGate ==
    /\ \E p \in GateLimits : max_per_minute = p[1] /\ max_per_hour = p[2]
    /\ admin_user_ids = {2}
    /\ user_queries = [u \in Users |-> <<>>]
    /\ now = 0
    /\ nticks = 0
    /\ ret = NoRet
    /\ lastDeny = NoDeny

\* MaxReqs requests are in flight, none has run yet.
InitGate ==
    requests \in [1..MaxReqs -> {[user |-> u, state |-> "new", at |-> 0] : u \in Users}]

\* MaxGateChecks requests are in flight, none has run yet.
InitGateChecks ==
    requests \in [1..MaxGateChecks -> {[user |-> u, state |-> "new", at |-> 0] : u \in Users}]

IdleGate == requests = <<>>

(***************************************************************************)
(* Specifications                                                          *)
(***************************************************************************)
\* The rate limiter under any sequence of checks, records and clock advances.
Init == InitRL /\ IdleRes /\ IdleFan /\ IdleRep /\ IdleCmd /\ IdleGate
Next ==
    \/ \E u \in Users : check_rate_limit(u)
    \/ \E u \in Users : record_query(u)
    \/ \E d \in Deltas : Tick(d)
Spec == Init /\ [][Next]_vars

\* The rate limiter with two callers, neither of them bypassed.
InitCallers == InitRLCallers /\ IdleRes /\ IdleFan /\ IdleRep /\ IdleCmd /\ IdleGate
SpecCallers == InitCallers /\ [][Next]_vars

\* The rate limiter and one caller that is not bypassed, with limits of 1 or
\* more, when the clock keeps advancing and the caller keeps asking: a denied
\* caller records nothing until it is admitted.
InitLockout == InitRLPositive /\ IdleRes /\ IdleFan /\ IdleRep /\ IdleCmd /\ IdleGate
NextLockout ==
    \/ check_rate_limit(1)
    \/ RecordUndenied(1)
    \/ \E d \in GateDeltas : Tick(d)
    \/ HourPasses
SpecLockout ==
    /\ InitLockout
    /\ [][NextLockout]_vars
    /\ WF_vars(\E d \in GateDeltas : Tick(d))
    /\ WF_vars(HourPasses)
    /\ WF_vars(check_rate_limit(1))

\* One call of resolve_fqdn on any lookup.
InitResolve == IdleRL /\ InitRes /\ IdleFan /\ IdleRep /\ IdleCmd /\ IdleGate
NextResolve == ResolveBot \/ ResolveMcp
SpecResolve == InitResolve /\ [][NextResolve]_vars

\* One fan-out over any input list.
InitFanOut == IdleRL /\ IdleRes /\ InitFan /\ IdleRep /\ IdleCmd /\ IdleGate
NextFanOut ==
    \/ Submit
    \/ StartCollect
    \/ \E i \in Indices : WorkerStart(i)
    \/ \E i \in Indices, lk \in FanLookups : WorkerFinish(i, lk)
    \/ \E i \in Indices : CollectBot(i)
    \/ \E i \in Indices : CollectMcp(i)
    \/ Return
    \/ get_operator_infrastructure
    \/ get_operator_infrastructure_with_all_fqdns
    \/ ListActive
SpecFan == InitFanOut /\ [][NextFanOut]_vars

\* One call of resolve_multiple_fqdns when every thread that can take a step
\* eventually takes one:
\* the caller's thread runs, the pool starts queued tasks, every lookup ends
\* (with addresses, an error or its timeout).
InitFanLive == InitFanOut /\ mode = "bot" /\ Len(fqdns) <= MaxLiveHosts
NextFanLive ==
    \/ Submit
    \/ StartCollect
    \/ \E i \in Indices : WorkerStart(i)
    \/ \E i \in Indices, lk \in FanLookups : WorkerFinish(i, lk)
    \/ \E i \in Indices : CollectBot(i)
    \/ Return
SpecFanLive == InitFanLive /\ [][NextFanLive]_vars /\ WF_vars(NextFanLive)

\* One request with a query command, served by the handler main() registers.
InitHandler == IdleRL /\ IdleRes /\ IdleFan /\ IdleRep /\ InitCmd /\ IdleGate
NextHandler ==
    \/ Dispatch
    \/ \E valid \in BOOLEAN : ParseArgs(valid)
    \/ \E outcome \in {"db_error", "no_rows", "ambiguous"} : LookupFails(outcome)
    \/ \E b \in SeqsUpTo(BuildOutcomes, MaxOps) : LookupFinds(b)
    \/ BuildReport
    \/ Respond
    \/ \E ok \in BOOLEAN : LogQuery(ok)
    \/ Except
SpecHandler == InitHandler /\ [][NextHandler]_vars

\* Requests of the callers passing rate_limit_check, interleaved at its await.
InitGated == InitRLGate /\ IdleRes /\ IdleFan /\ IdleRep /\ IdleCmd /\ InitGate
NextGate ==
    \/ \E r \in DOMAIN requests, e \in {0, 1} : rate_limit_check(r, e)
    \/ \E r \in DOMAIN requests : ReplySent(r)
    \/ \E d \in GateDeltas : Tick(d)
SpecGate == InitGated /\ [][NextGate]_vars

\* Requests passing rate_limit_check while check_rate_limit is also called on
\* its own, any number of times between them.
\* A limit of zero (the replacement raises), of one (the second request of a
\* minute is denied) and an hour limit of two.
CheckedLimits == {<<0, DefaultMaxPerHour>>, <<1, DefaultMaxPerHour>>, <<DefaultMaxPerMinute, 2>>}

InitRLChecked ==
    /\ \E p \in CheckedLimits : max_per_minute = p[1] /\ max_per_hour = p[2]
    /\ admin_user_ids = {2}
    /\ user_queries = [u \in Users |-> <<>>]
    /\ now = 0
    /\ nticks = 0
    /\ ret = NoRet
    /\ lastDeny = NoDeny

InitGateChecked == InitRLChecked /\ IdleRes /\ IdleFan /\ IdleRep /\ IdleCmd /\ InitGateChecks
NextGateChecked ==
    \/ \E r \in DOMAIN requests, e \in {0, 1} : rate_limit_check(r, e)
    \/ \E r \in DOMAIN requests : ReplySent(r)
    \/ \E d \in GateDeltas : Tick(d)
    \/ \E u \in Users : check_rate_limit(u)
SpecGateChecked == InitGateChecked /\ [][NextGateChecked]_vars

(***************************************************************************)
(* Properties of the rate limiter (checked under Spec)                     *)
(***************************************************************************)
\* The state right after check_rate_limit(ret.user) ran at time ret.at.
Checked         == ret.call = "check"
CheckedNonAdmin == Checked /\ ret.user \notin admin_user_ids
\* The caller's retained sequence (after the purge of that check).
Retained        == user_queries[ret.user]
\* Timestamps within the last 60 seconds, and the retained ones.
InMinute        == {i \in DOMAIN Retained : ret.at - Retained[i] <= MinuteWindow * TicksPerSec}
MinuteCount     == Cardinality(InMinute)
HourCount       == Len(Retained)
\* x seconds is v ticks rounded down to whole seconds.
FloorSeconds(x, v) == x * TicksPerSec <= v /\ v < (x + 1) * TicksPerSec

\* C1: a caller in admin_user_ids is admitted by every check_rate_limit call,
\* whatever its recorded requests and whatever the two limits are.
C1_AdminAlwaysAdmitted ==
    (Checked /\ ret.user \in admin_user_ids) => (ret.allowed /\ ret.error = "none")

\* An admin is admitted although its recorded requests reach both limits.
C1_Witness ==
    /\ Checked
    /\ ret.user \in admin_user_ids
    /\ ret.allowed
    /\ Len(Retained) >= 2
    /\ MinuteCount >= max_per_minute
    /\ HourCount >= max_per_hour

\* C2: for a non-bypassed caller the check denies exactly when
\* minuteCount >= maxPerMinute (reported as the minute limit, tested first) or
\* hourCount >= maxPerHour (the hour limit); otherwise the caller is admitted.
C2_DecisionByCounts ==
    CheckedNonAdmin =>
        IF MinuteCount >= max_per_minute THEN Denied(ret) /\ ret.limit = "minute"
        ELSE IF HourCount >= max_per_hour THEN Denied(ret) /\ ret.limit = "hour"
        ELSE ret.allowed

\* Whenever the call returns at all, its decision is the one C2 states.
DecisionByCountsWhenReturning ==
    (CheckedNonAdmin /\ ~Raised(ret)) =>
        IF MinuteCount >= max_per_minute THEN Denied(ret) /\ ret.limit = "minute"
        ELSE IF HourCount >= max_per_hour THEN Denied(ret) /\ ret.limit = "hour"
        ELSE ret.allowed

\* C3: on a minute-limit denial the reported wait is 60 - (now - t) rounded down
\* to whole seconds, t being the OLDEST timestamp within the last 60 seconds.
C3_MinuteWaitFromOldest ==
    (Denied(ret) /\ ret.limit = "minute") =>
        LET i == CHOOSE j \in InMinute : \A k \in InMinute : Retained[j] <= Retained[k]
        IN  /\ ret.unit = "seconds"
            /\ FloorSeconds(ret.wait, MinuteWindow * TicksPerSec - (ret.at - Retained[i]))

\* What the code reports instead: the wait computed from the NEWEST timestamp
\* within the last 60 seconds.
MinuteWaitFromNewest ==
    (Denied(ret) /\ ret.limit = "minute") =>
        LET i == CHOOSE j \in InMinute : \A k \in InMinute : Retained[j] >= Retained[k]
        IN  /\ ret.unit = "seconds"
            /\ FloorSeconds(ret.wait, MinuteWindow * TicksPerSec - (ret.at - Retained[i]))

\* The wait a denial reports, in seconds.
ReportedSeconds == IF ret.unit = "minutes" THEN 60 * ret.wait ELSE ret.wait

\* C4 (as claimed): on an hour-limit denial the reported wait is
\* 3600 - (now - t0) seconds, t0 being the oldest retained timestamp.
C4_HourWaitReportedInSeconds ==
    (Denied(ret) /\ ret.limit = "hour") =>
        FloorSeconds(ReportedSeconds, HourWindow * TicksPerSec - (ret.at - Retained[1]))

\* C4 (amended): on an hour-limit denial the wait computed is 3600 - (now - t0)
\* rounded down to whole seconds, t0 being the oldest retained timestamp, and the
\* wait reported is that number of seconds in whole minutes, rounded down.
C4_HourWaitReportedInMinutes ==
    (Denied(ret) /\ ret.limit = "hour") =>
        /\ FloorSeconds(ret.wait_seconds, HourWindow * TicksPerSec - (ret.at - Retained[1]))
        /\ ret.unit = "minutes"
        /\ 60 * ret.wait <= ret.wait_seconds
        /\ ret.wait_seconds < 60 * (ret.wait + 1)

\* Two records 50 s apart, a check 50 s later: 3500 seconds, reported as 58 minutes.
C4_Witness ==
    /\ Denied(ret)
    /\ ret.limit = "hour"
    /\ max_per_hour = 2
    /\ Len(Retained) = 2
    /\ Retained[2] - Retained[1] = 50 * TicksPerSec
    /\ ret.at - Retained[1] = 100 * TicksPerSec
    /\ ret.wait_seconds = 3500
    /\ ret.wait = 58

\* C5: every wait time a denying check_rate_limit returns, on either limit, is >= 0.
C5_WaitNonNegative ==
    Denied(ret) => (ret.wait_seconds >= 0 /\ ret.wait >= 0)

\* A denial at the very edge of its window (the timestamp it is computed from is
\* exactly 60 s, or exactly 3600 s, old): the wait is 0.
C5_Witness ==
    /\ Denied(ret)
    /\ ret.wait_seconds = 0
    /\ ret.at - ret.ref \in {MinuteWindow * TicksPerSec, HourWindow * TicksPerSec}

\* A denial of a caller that was denied before, at an earlier time, with no
\* record_query of that caller in between.
DeniedAgainLater ==
    /\ Denied(ret)
    /\ ret.prev.user = ret.user
    /\ ret.at > ret.prev.at

\* C6 (as claimed): the wait of the later denial is strictly smaller.
C6_WaitStrictlyDecreases ==
    DeniedAgainLater => ret.wait_seconds < ret.prev.wait_seconds

\* C6 (amended): when both denials are on the same limit and computed from the
\* same timestamp, the wait in whole seconds of the later one is not larger, and
\* it is strictly smaller when the two checks are at least one second apart; the
\* wait reported (seconds on the minute limit, minutes on the hour limit) is not
\* larger either.
C6_WaitDecreasesOnSameLimit ==
    (DeniedAgainLater /\ ret.limit = ret.prev.limit /\ ret.ref = ret.prev.ref) =>
        /\ ret.wait_seconds <= ret.prev.wait_seconds
        /\ ret.wait <= ret.prev.wait
        /\ (ret.at - ret.prev.at >= TicksPerSec => ret.wait_seconds < ret.prev.wait_seconds)

\* Two denials on the same limit, from the same timestamp, a second or more apart.
C6_Witness ==
    /\ DeniedAgainLater
    /\ ret.limit = ret.prev.limit
    /\ ret.ref = ret.prev.ref
    /\ ret.at - ret.prev.at >= TicksPerSec
    /\ ret.wait_seconds < ret.prev.wait_seconds

\* C23: after check_rate_limit ran for a non-bypassed caller at time now, the
\* caller's retained sequence holds no timestamp older than 3600 seconds. The
\* sequences record_query builds under the non-decreasing clock are in time
\* order, and the check removed a prefix of the sequence, every entry of it
\* older than 3600 seconds.
C23_NoneOlderThanHourAfterCheck ==
    /\ \A u \in Users : \A i, j \in DOMAIN user_queries[u] :
          i < j => user_queries[u][i] <= user_queries[u][j]
    /\ CheckedNonAdmin =>
          /\ \A i \in DOMAIN Retained : ret.at - Retained[i] <= HourWindow * TicksPerSec
          /\ \E k \in 0..Len(ret.before) :
                /\ Retained = SubSeq(ret.before, k + 1, Len(ret.before))
                /\ \A i \in 1..k : ret.at - ret.before[i] > HourWindow * TicksPerSec

\* A check that found three timestamps, two of them older than an hour, and
\* retained the third.
C23_Witness ==
    /\ CheckedNonAdmin
    /\ Len(ret.before) = 3
    /\ Len(Retained) = 1
    /\ ret.at - ret.before[2] > HourWindow * TicksPerSec
    /\ ret.at - Retained[1] <= HourWindow * TicksPerSec

\* A check of a caller whose latest denial, with no record_query of the caller
\* since, was on the minute limit.
CheckedAfterMinuteDenial ==
    /\ Checked
    /\ ret.prev.user = ret.user
    /\ ret.prev.limit = "minute"

\* C24: when check_rate_limit denies a caller on the minute limit at time t with
\* wait time w and no record_query of the caller follows, a check at time t + w
\* is not denied by the minute limit (stated here for limits of 1 or more).
C24_NotDeniedAfterTheWait ==
    (/\ CheckedAfterMinuteDenial
     /\ max_per_minute >= 1
     /\ ret.at = ret.prev.at + ret.prev.wait * TicksPerSec) =>
        ~(Denied(ret) /\ ret.limit = "minute")

\* What holds of the code: a check one second or more after t + w is not
\* denied by the minute limit.
NotDeniedOneSecondAfterTheWait ==
    (/\ CheckedAfterMinuteDenial
     /\ max_per_minute >= 1
     /\ ret.at >= ret.prev.at + (ret.prev.wait + 1) * TicksPerSec) =>
        ~(Denied(ret) /\ ret.limit = "minute")

\* C27: with max_per_minute >= 1 and max_per_hour >= 1, a non-bypassed caller
\* that is denied and records no further request is eventually admitted by
\* check_rate_limit as time advances, and from the first check that admits it
\* every later check admits it.
C27_NoPermanentLockout ==
    /\ (lastDeny.user = 1) ~> (Checked /\ ret.user = 1 /\ ret.allowed /\ lastDeny.user = 1)
    /\ []((Checked /\ ret.user = 1 /\ ret.allowed /\ lastDeny.user = 1) =>
            []((Checked /\ ret.user = 1) => ret.allowed))

\* The caller was denied on the hour limit and, with nothing recorded since, a
\* later check admits it: the oldest timestamp has been purged.
C27_Witness ==
    /\ Checked
    /\ ret.user = 1
    /\ ret.allowed
    /\ ret.prev.user = 1
    /\ ret.prev.limit = "hour"
    /\ ret.at > ret.prev.at
    /\ Len(Retained) < Len(ret.before)
    /\ Retained # <<>>

\* C16: a denial is always a return value; check_rate_limit raises nothing in
\* any reachable state of the limiter, for every maxPerMinute >= 0 and
\* maxPerHour >= 0.
C16_CheckNeverRaises ==
    Checked => ~Raised(ret)

\* What holds of the code: the call raises only when one of the limits is 0.
RaisesOnlyOnZeroLimit ==
    Raised(ret) =>
        \/ max_per_minute = 0 /\ ret.error = "StopIteration" /\ ret.queries_last_minute = 0
        \/ max_per_hour = 0 /\ ret.error = "IndexError" /\ ret.queries_last_hour = 0

\* C17: check_rate_limit(a) and record_query(a) leave the timestamp sequence of
\* every other caller b unchanged, and the decision of a check for b is the one
\* its own retained timestamps give (fewer than max_per_minute within the last
\* 60 seconds and fewer than max_per_hour retained), whatever the other callers
\* have requested.
C17_CallersIndependent ==
    [][ /\ \A a \in Users :
              (check_rate_limit(a) \/ record_query(a)) =>
                  \A b \in Users \ {a} : user_queries'[b] = user_queries[b]
        /\ Cardinality({u \in Users : user_queries'[u] # user_queries[u]}) <= 1
        /\ (ret'.call = "check" /\ ret'.error = "none" /\ ret'.user \notin admin_user_ids) =>
              /\ user_queries'[ret'.user] = PurgeOld(user_queries[ret'.user], now)
              /\ ret'.allowed <=>
                    /\ Cardinality({i \in DOMAIN user_queries'[ret'.user] :
                                       now - user_queries'[ret'.user][i] <= MinuteWindow * TicksPerSec})
                          < max_per_minute
                    /\ Len(user_queries'[ret'.user]) < max_per_hour
      ]_vars

\* Caller 1 is admitted while another caller, not bypassed either, has used up
\* its own minute limit.
C17_Witness ==
    /\ Checked
    /\ ret.user = 1
    /\ ret.allowed
    /\ admin_user_ids = {}
    /\ max_per_minute = 2
    /\ Len(user_queries[2]) = 2
    /\ \A i \in DOMAIN user_queries[2] : ret.at - user_queries[2][i] <= MinuteWindow * TicksPerSec
    /\ Len(user_queries[1]) = 1

(***************************************************************************)
(* Properties of the fan-out (checked under SpecFan)                       *)
(***************************************************************************)
Returned    == pc = "returned"
\* The tasks submitted for hostname h.
TasksOf(h)  == {i \in Indices : futures[i].fqdn = h}
\* How often the input names hostname h.
Occurrences(h) == Cardinality({k \in DOMAIN fqdns : fqdns[k] = h})
Succeeded   == {i \in Indices : futures[i].lookup.kind = "ok"}
FailedTasks == {i \in Indices : futures[i].lookup.kind \in FailureKinds}

\* C7: the mapping resolve_multiple_fqdns returns has exactly the input
\* hostnames as its keys, whatever lookups succeed, fail or time out.
C7_KeysAreTheInput ==
    (Returned /\ mode = "bot") => DOMAIN results = Range(fqdns)

\* A returned call over three entries, one hostname twice: a lookup timed out,
\* the two others succeeded with different addresses.
C7_Witness ==
    /\ Returned
    /\ mode = "bot"
    /\ Len(fqdns) = 3
    /\ Cardinality(Range(fqdns)) = 2
    /\ Cardinality(FailedTasks) = 1
    /\ \E j, k \in Succeeded : futures[j].value # futures[k].value

\* C8: failures do not change the outcome of the other lookups. Bot: every
\* hostname is mapped to the result of a lookup of its own (of its only lookup
\* when it occurs once), the address list when that lookup succeeded and the
\* empty list when it failed. MCP server: the pairs collected are exactly the
\* (hostname, address list) of the lookups that succeeded.
C8_FailuresAreIsolated ==
    /\ (Returned /\ mode = "bot") =>
          \A h \in Range(fqdns) :
             /\ h \in DOMAIN results
             /\ \E i \in TasksOf(h) : results[h] = futures[i].value
             /\ \A i \in TasksOf(h) :
                   /\ i \in Succeeded => Range(futures[i].value) = Range(futures[i].lookup.addrs)
                   /\ i \in FailedTasks => futures[i].value = <<>>
                   /\ TasksOf(h) = {i} => results[h] = futures[i].value
    /\ (Returned /\ mode = "mcp") =>
          /\ Range(active_results) = {<<futures[i].fqdn, futures[i].value>> : i \in Succeeded}
          /\ \A i \in Succeeded : Range(futures[i].value) = Range(futures[i].lookup.addrs)
          /\ Len(active_results) = Cardinality(Succeeded)
          /\ \A i \in FailedTasks, k \in DOMAIN active_results :
                TasksOf(futures[i].fqdn) = {i} => active_results[k][1] # futures[i].fqdn

\* The MCP server's fan-out over three different hostnames returned: two
\* lookups timed out, one succeeded and is the only pair collected.
C8_Witness ==
    /\ Returned
    /\ mode = "mcp"
    /\ Cardinality(Range(fqdns)) = 3
    /\ Cardinality(Succeeded) = 1
    /\ Cardinality(FailedTasks) = 2
    /\ Len(active_results) = 1

\* C9: at every instant the resolutions started and not yet finished are at
\* most max_workers, also for inputs longer than max_workers.
C9_InFlightBounded ==
    Cardinality(InState("running")) <= max_workers

\* The pool is full while a submitted task still waits for a worker.
C9_Witness ==
    /\ mode = "bot"
    /\ Len(fqdns) > max_workers
    /\ Cardinality(InState("running")) = max_workers
    /\ InState("pending") # {}

\* C21 (as claimed): when the input names a hostname more than once the call
\* returns, the hostname is resolved once and the mapping has one entry for it.
C21_DuplicateResolvedOnce ==
    (Returned /\ mode = "bot") =>
        \A h \in Range(fqdns) :
            /\ h \in DOMAIN results
            /\ Cardinality(TasksOf(h)) = 1

\* C21 (amended): when the input names a hostname more than once the call
\* returns with every task done, one lookup was made for each occurrence of
\* the hostname, and the mapping has one entry for it: each result collected
\* for the hostname replaces the entry, so it holds the result collected last.
C21_DuplicateOneEntryLastWins ==
    /\ []((Returned /\ mode = "bot") =>
            \A h \in Range(fqdns) :
                /\ h \in DOMAIN results
                /\ Cardinality(TasksOf(h)) = Occurrences(h)
                /\ \A i \in TasksOf(h) : futures[i].state = "done" /\ i \in collected
                /\ \E i \in TasksOf(h) : results[h] = futures[i].value)
    /\ [][\A i \in Indices :
            (mode = "bot" /\ collected' = collected \cup {i} /\ i \notin collected) =>
                /\ DOMAIN results' = DOMAIN results \cup {futures[i].fqdn}
                /\ results'[futures[i].fqdn] = futures[i].value
                /\ \A h \in DOMAIN results : h # futures[i].fqdn => results'[h] = results[h]
        ]_vars

\* The input names one hostname twice, the two lookups gave different results,
\* and the entry holds the result of the task submitted first: it was
\* collected last.
C21_Witness ==
    /\ Returned
    /\ mode = "bot"
    /\ Len(fqdns) = 2
    /\ fqdns[1] = fqdns[2]
    /\ futures[1].value # futures[2].value
    /\ futures[1].value # <<>>
    /\ DOMAIN results = {fqdns[1]}
    /\ results[fqdns[1]] = futures[1].value

\* C20: resolve_multiple_fqdns returns only after every resolution it submitted
\* has finished (in the state where it has returned a task was submitted for
\* every input hostname and none is queued or running), and it does return
\* when every lookup terminates.
C20_ReturnsAfterAllFinished ==
    /\ []((mode = "bot" /\ pc \in {"returned", "reported"}) =>
            /\ Len(futures) = Len(fqdns)
            /\ \A i \in Indices : futures[i].state = "done")
    /\ (mode = "bot") ~> (mode = "bot" /\ pc \in {"returned", "reported"})

\* The call returned over two hostnames with a pool of one worker: the tasks
\* ran one after the other, one timed out, both are done.
C20_Witness ==
    /\ Returned
    /\ mode = "bot"
    /\ max_workers = 1
    /\ Len(fqdns) = 2
    /\ fqdns[1] # fqdns[2]
    /\ \A i \in Indices : futures[i].state = "done"
    /\ \E i \in Indices : futures[i].lookup = Failed("timeout")

(***************************************************************************)
(* Properties of the resolver (checked under SpecResolve)                  *)
(***************************************************************************)
\* C10: whatever raw addresses the lookup returns, resolve_fqdn (bot and MCP
\* server) returns each distinct address exactly once, in ascending order of
\* string comparison, not of numeric value.
C10_SortedAndUnique ==
    (rpc = "returned" /\ lookup.kind = "ok") =>
        /\ Range(resolved) = Range(lookup.addrs)
        /\ \A i, j \in DOMAIN resolved : i < j => StrLess(resolved[i], resolved[j])
        /\ lookup.addrs = <<Addr_10_0_0_1, Addr_10_0_0_1, Addr_v6_1>>
              => resolved = <<Addr_10_0_0_1, Addr_v6_1>>
        /\ Range(lookup.addrs) = {Addr_9_0_0_1, Addr_10_0_0_1}
              => resolved = <<Addr_10_0_0_1, Addr_9_0_0_1>>

\* "9.0.0.1" came first and twice, "10.0.0.1" last: the result lists "10.0.0.1"
\* before "9.0.0.1", each once.
C10_Witness ==
    /\ rpc = "returned"
    /\ lookup = [kind |-> "ok", addrs |-> <<Addr_9_0_0_1, Addr_9_0_0_1, Addr_10_0_0_1>>]
    /\ resolved = <<Addr_10_0_0_1, Addr_9_0_0_1>>

\* C22: resolve_fqdn has no side effect besides the lookup: the state shared
\* between resolutions, the process-wide default timeout included, is after
\* the call what it was before it.
C22_NoSharedStateWritten ==
    [][default_timeout' = default_timeout]_vars

\* What holds of the code: the default timeout is written by the bot's
\* resolver only, which sets it to the timeout of the call.
DefaultTimeoutSetByBotResolver ==
    /\ [][default_timeout' # default_timeout =>
            (resolver = "bot" /\ default_timeout' = <<timeout>>)]_vars
    /\ []((resolver = "bot" /\ rpc \in {"returned", "raised"}) => default_timeout = <<timeout>>)

\* C11: resolve_fqdn (bot and MCP server) never raises to its caller; a lookup
\* timeout, a name-resolution failure and any other lookup error each make it
\* return the empty list, so the return value does not tell them apart.
C11_FailuresYieldEmptyList ==
    /\ rpc # "raised"
    /\ (rpc = "returned" /\ lookup.kind \in FailureKinds) => resolved = <<>>

\* The bot's resolver returned the empty list for a lookup error that is neither
\* a timeout nor a name-resolution failure.
C11_Witness ==
    /\ rpc = "returned"
    /\ resolver = "bot"
    /\ lookup = Failed("error")
    /\ resolved = <<>>

(***************************************************************************)
(* Properties of the reports (checked under SpecFan)                       *)
(***************************************************************************)
ReportedActive == pc = "reported" /\ report.kind = "active"
ReportedAll    == pc = "reported" /\ report.kind = "all"
ListedMcp      == pc = "reported" /\ mode = "mcp"
\* The lookups of hostname h all gave the same result (always so when h is in
\* the input once), and that result.
Consistent(h)  == \A i, j \in TasksOf(h) : futures[i].value = futures[j].value
ValueOf(h)     == futures[CHOOSE i \in TasksOf(h) : TRUE].value
\* The positions of a list of entries that are about hostname h.
EntriesOf(a, h) == {i \in DOMAIN a : a[i].fqdn = h}

\* C12: for every input of k hostnames and every pattern of lookup outcomes the
\* report of get_operator_infrastructure has total_fqdns = k and at most k
\* entries in active_fqdns.
C12_ReportTotals ==
    ReportedActive =>
        /\ report.total_fqdns = Len(fqdns)
        /\ Len(report.active_fqdns) <= Len(fqdns)

\* Three hostnames, one of them twice in the input, two lookups failed: the
\* report counts three and lists one.
C12_Witness ==
    /\ ReportedActive
    /\ Len(fqdns) = 3
    /\ Cardinality(Range(fqdns)) = 2
    /\ Cardinality(FailedTasks) = 2
    /\ report.total_fqdns = 3
    /\ Len(report.active_fqdns) = 1

C14_ResolvedIffIps ==
    /\ ReportedActive =>
          LET a == report.active_fqdns
          IN  /\ \A i \in DOMAIN a : a[i].resolved <=> (a[i].ips # <<>>)
              /\ \A i \in DOMAIN a : a[i].resolved
              /\ \A i \in DOMAIN a : a[i].fqdn \in Range(fqdns)
              /\ \A h \in Range(fqdns) :
                    /\ EntriesOf(a, h) # {} => TasksOf(h) \cap Succeeded # {}
                    /\ TasksOf(h) \subseteq Succeeded => EntriesOf(a, h) # {}
    /\ ReportedAll =>
          LET a == report.all_fqdns
          IN  /\ \A i \in DOMAIN a : a[i].resolved <=> (a[i].ips # <<>>)
              /\ Len(a) = Len(fqdns)
              /\ \A h \in Range(fqdns) : Cardinality(EntriesOf(a, h)) = Cardinality(TasksOf(h))
              /\ report.active_count + report.inactive_count = Len(fqdns)
              /\ report.active_count = Cardinality({i \in DOMAIN a : a[i].ips # <<>>})

\* The full report over three different hostnames: one lookup timed out, its
\* entry has no addresses and is not resolved; the two others are resolved.
C14_Witness ==
    /\ ReportedAll
    /\ Cardinality(Range(fqdns)) = 3
    /\ Cardinality(FailedTasks) = 1
    /\ report.active_count = 2
    /\ report.inactive_count = 1
    /\ \E i \in DOMAIN report.all_fqdns :
          ~report.all_fqdns[i].resolved /\ report.all_fqdns[i].ips = <<>>
    /\ \E i \in DOMAIN report.all_fqdns :
          report.all_fqdns[i].resolved /\ report.all_fqdns[i].ips # <<>>

\* C25: the report of get_operator_infrastructure_with_all_fqdns has one entry
\* for each hostname of the input (as many entries for a hostname as the input
\* names it), in ascending order of hostname; active_count is the number of
\* entries whose resolved flag is true, inactive_count the number of the
\* others, and active_count + inactive_count = total_fqdns.
C25_AllReportEntriesAndCounts ==
    ReportedAll =>
        LET a == report.all_fqdns
        IN  /\ Len(a) = Len(fqdns)
            /\ \A h \in Hostnames : Cardinality(EntriesOf(a, h)) = Occurrences(h)
            /\ \A i, j \in DOMAIN a :
                  i < j => (a[i].fqdn = a[j].fqdn \/ StrLess(a[i].fqdn, a[j].fqdn))
            /\ report.total_fqdns = Len(fqdns)
            /\ report.active_count + report.inactive_count = report.total_fqdns
            /\ report.active_count = Cardinality({i \in DOMAIN a : a[i].resolved})
            /\ report.inactive_count = Cardinality({i \in DOMAIN a : ~a[i].resolved})

\* The input names "ims", "bsf" and a third hostname; one lookup succeeded:
\* the report starts with "bsf" and counts one active and two inactive.
C25_Witness ==
    /\ ReportedAll
    /\ Len(fqdns) = 3
    /\ fqdns[1] = Host_ims
    /\ fqdns[2] = Host_bsf
    /\ Len(report.all_fqdns) = 3
    /\ report.all_fqdns[1].fqdn = Host_bsf
    /\ report.active_count = 1
    /\ report.inactive_count = 2
    /\ Cardinality({i \in DOMAIN report.all_fqdns : report.all_fqdns[i].resolved}) = 1

\* Both report functions have been called for the same hostnames and lookup
\* results: the two reports.
BothReports  == pc = "reported" /\ prior_report # NoReport
ActiveReport == IF report.kind = "active" THEN report ELSE prior_report
AllReport    == IF report.kind = "active" THEN prior_report ELSE report
IsResolved(entry) == entry.resolved

\* C30: for the same hostnames and the same lookup results, active_fqdns of
\* get_operator_infrastructure is the list of the entries of all_fqdns of
\* get_operator_infrastructure_with_all_fqdns whose resolved flag is true, in
\* the same order; active_count is the length of that list and total_fqdns is
\* the same in both.
C30_ReportsAgree ==
    BothReports =>
        /\ ActiveReport.kind = "active"
        /\ AllReport.kind = "all"
        /\ ActiveReport.active_fqdns = SelectSeq(AllReport.all_fqdns, IsResolved)
        /\ AllReport.active_count = Len(ActiveReport.active_fqdns)
        /\ ActiveReport.total_fqdns = AllReport.total_fqdns

\* Both reports over an input that names "ims" first and one hostname twice:
\* two entries are active, one is not.
C30_Witness ==
    /\ BothReports
    /\ Len(fqdns) = 3
    /\ fqdns[1] = Host_ims
    /\ Cardinality(Range(fqdns)) = 2
    /\ Len(ActiveReport.active_fqdns) = 2
    /\ ActiveReport.active_fqdns[1].fqdn = ActiveReport.active_fqdns[2].fqdn
    /\ AllReport.active_count = 2
    /\ AllReport.inactive_count = 1
    /\ AllReport.all_fqdns[3].fqdn = Host_ims

(***************************************************************************)
(* Properties of the handlers (checked under SpecHandler)                  *)
(***************************************************************************)
Done == hpc = "done"
\* The operators of the batch whose report is sent to the user.
Reported ==
    {i \in DOMAIN batch :
        \E m \in DOMAIN replies : replies[m].kind = "report" /\ i \in Range(replies[m].operators)}

\* C15: a request that reaches the data-store lookup or the fan-out has been
\* submitted to the rate limiter before (and a denied one reaches neither).
C15_LimiterBeforeLookup ==
    \A i \in DOMAIN trace :
        trace[i] \in {"data_store", "fan_out"} =>
            \E j \in 1..(i - 1) : trace[j] = "rate_limiter"

\* What holds of the code: no request passes through the rate limiter.
LimiterNeverOnThePath ==
    \A i \in DOMAIN trace : trace[i] # "rate_limiter"

\* C18: in a batch of several operators, when building the report of one
\* operator fails, the report of every other operator whose report can be built
\* is built and sent to the user.
C18_BatchFailureIsolated ==
    Done =>
        \A i \in DOMAIN batch :
            (batch[i] \in Built /\ \E j \in DOMAIN batch : j # i /\ batch[j] \in BuildFailures)
                => i \in Reported

\* What holds of the code: one failure in the batch and no report is sent;
\* the answer ends with the generic error message.
BatchIsAllOrNothing ==
    (Done /\ \E j \in DOMAIN batch : batch[j] \in BuildFailures) =>
        /\ Reported = {}
        /\ replies[Len(replies)].kind = "error"

(***************************************************************************)
(* Properties of rate_limit_check (checked under SpecGate)                 *)
(***************************************************************************)
\* The requests of caller u that rate_limit_check admitted.
AdmittedOf(u) == {r \in DOMAIN requests : requests[r].user = u /\ requests[r].state = "admitted"}
\* How often the deque ts holds the timestamp t.
CountOf(ts, t) == Cardinality({i \in DOMAIN ts : ts[i] = t})

\* C19: with several requests of one caller in flight, interleaved at the await
\* of rate_limit_check, an admitted request is recorded in the very step that
\* checked it (in every state each admission of the last hour is in the
\* caller's deque), and for a caller that is not bypassed the requests admitted
\* in any window of 60 seconds are at most max_per_minute.
C19_AdmittedWithinLimit ==
    \A u \in Users :
        /\ \A r \in AdmittedOf(u) :
              now - requests[r].at <= HourWindow * TicksPerSec =>
                  CountOf(user_queries[u], requests[r].at)
                      >= Cardinality({q \in AdmittedOf(u) : requests[q].at = requests[r].at})
        /\ u \notin admin_user_ids =>
              \A r \in AdmittedOf(u) :
                  Cardinality({q \in AdmittedOf(u) :
                                  /\ requests[r].at <= requests[q].at
                                  /\ requests[q].at <= requests[r].at + MinuteWindow * TicksPerSec})
                      <= max_per_minute

\* The timestamps recorded for caller u that lie within the last w seconds.
InWindow(u, w) ==
    {i \in DOMAIN user_queries[u] :
        now - w * TicksPerSec <= user_queries[u][i] /\ user_queries[u][i] <= now}

\* C26: with limits of 1 or more and every request recorded by
\* rate_limit_check, that is only after a check that admitted it, at every
\* time now a non-bypassed caller has at most max_per_minute recorded
\* timestamps t with now - 60 <= t <= now and at most max_per_hour with
\* now - 3600 <= t <= now.
C26_SlidingWindowSafety ==
    (max_per_minute >= 1 /\ max_per_hour >= 1) =>
        \A u \in Users \ admin_user_ids :
            /\ Cardinality(InWindow(u, MinuteWindow)) <= max_per_minute
            /\ Cardinality(InWindow(u, HourWindow)) <= max_per_hour

\* With max_per_minute = 1 a request of caller 1 was admitted, a later one
\* denied, and a third admitted once the first had left the window: two
\* timestamps are recorded, one of them within the last 60 seconds.
C26_Witness ==
    /\ max_per_minute = 1
    /\ 1 \notin admin_user_ids
    /\ Len(user_queries[1]) = 2
    /\ Cardinality(InWindow(1, MinuteWindow)) = 1
    /\ Cardinality(InWindow(1, HourWindow)) = 2
    /\ \E r \in DOMAIN requests : requests[r].user = 1 /\ requests[r].state = "denied"

\* Three requests of caller 1 with max_per_minute = 1: one is admitted, one is
\* denied and still suspended in its reply when, more than 60 seconds later,
\* the third is checked and admitted.
C19_Witness ==
    /\ max_per_minute = 1
    /\ \E a, b, c \in DOMAIN requests :
          /\ requests[a].user = 1 /\ requests[b].user = 1 /\ requests[c].user = 1
          /\ requests[c].state = "admitted"
          /\ requests[a].state = "replying"
          /\ requests[b].state = "admitted"
          /\ requests[c].at <= requests[a].at
          /\ requests[a].at < requests[b].at
          /\ requests[b].at - requests[c].at > MinuteWindow * TicksPerSec

(***************************************************************************)
(* Properties of check_rate_limit called on its own and by rate_limit_check *)
(* (checked under SpecGateChecked)                                         *)
(***************************************************************************)
\* The sequence a is what is left of b after removing entries from its head.
IsSuffix(a, b) == \E k \in 0..Len(b) : a = SubSeq(b, k + 1, Len(b))

\* The decision and the message of two returns of check_rate_limit are the same.
SameReturn(r1, r2) ==
    /\ r1.allowed = r2.allowed
    /\ r1.error = r2.error
    /\ r1.limit = r2.limit
    /\ r1.wait_seconds = r2.wait_seconds
    /\ r1.wait = r2.wait
    /\ r1.unit = r2.unit
    /\ r1.queries_last_minute = r2.queries_last_minute
    /\ r1.queries_last_hour = r2.queries_last_hour

\* C28: check_rate_limit adds no timestamp: a step that ends in its return (or
\* in its exception) leaves of the caller's sequence what remains after
\* removing entries older than an hour from the head, and leaves the other
\* sequences alone; a check that follows a check of the same caller at the same
\* time, nothing recorded between them, returns the same and changes nothing;
\* a request that rate_limit_check denies adds nothing to the sequence, neither
\* when it is checked nor when its reply is sent, and a request it admits adds
\* the one timestamp of record_query.
C28_CheckAddsNothing ==
    [][ /\ ret'.call = "check" =>
              LET u == ret'.user
              IN  /\ IsSuffix(user_queries'[u], user_queries[u])
                  /\ \A i \in 1..(Len(user_queries[u]) - Len(user_queries'[u])) :
                        now - user_queries[u][i] > HourWindow * TicksPerSec
                  /\ \A v \in Users \ {u} : user_queries'[v] = user_queries[v]
        /\ (ret.call = "check" /\ ret'.call = "check" /\ ret'.user = ret.user /\ ret'.at = ret.at) =>
              /\ SameReturn(ret', ret)
              /\ user_queries' = user_queries
        /\ \A r \in DOMAIN requests :
              LET u == requests[r].user
              IN  /\ (requests[r].state = "new" /\ requests'[r].state \in {"replying", "raised"}) =>
                        /\ ret'.call = "check"
                        /\ Len(user_queries'[u]) <= Len(user_queries[u])
                  /\ (requests[r].state = "replying" /\ requests'[r].state = "denied") =>
                        user_queries' = user_queries
                  /\ (requests[r].state = "new" /\ requests'[r].state = "admitted") =>
                        /\ Len(user_queries'[u]) >= 1
                        /\ user_queries'[u][Len(user_queries'[u])] = requests'[r].at
                        /\ IsSuffix(SubSeq(user_queries'[u], 1, Len(user_queries'[u]) - 1),
                                    user_queries[u])
      ]_vars

\* A request of the caller was denied by rate_limit_check, and check_rate_limit
\* has denied the caller again at the same time: the sequence it found is the
\* sequence it left, with the timestamps that were there before the denial.
C28_Witness ==
    /\ Denied(ret)
    /\ ret.prev.user = ret.user
    /\ ret.prev.at = ret.at
    /\ ret.prev.wait_seconds = ret.wait_seconds
    /\ ret.before = user_queries[ret.user]
    /\ Len(ret.before) >= 1
    /\ \E r \in DOMAIN requests :
          /\ requests[r].user = ret.user
          /\ requests[r].state = "denied"
          /\ requests[r].at = ret.at

\* The sequence a is the beginning of b.
IsPrefix(a, b) == Len(a) <= Len(b) /\ a = SubSeq(b, 1, Len(a))

\* C29: for a caller of the bypass set check_rate_limit admits and leaves the
\* caller's sequence as it is (it returns before the purge), and a request of
\* the caller that passes rate_limit_check is admitted and appends its
\* timestamp to the unpurged sequence: the sequence only grows, entries older
\* than 3600 seconds included.
C29_AdminSequenceOnlyGrows ==
    [][\A u \in admin_user_ids :
          /\ IsPrefix(user_queries[u], user_queries'[u])
          /\ (ret'.call = "check" /\ ret'.user = u) =>
                (ret'.allowed /\ user_queries'[u] = user_queries[u])
          /\ \A r \in DOMAIN requests :
                (requests[r].user = u /\ requests[r].state = "new" /\ requests'[r].state # "new") =>
                    /\ requests'[r].state = "admitted"
                    /\ user_queries'[u] = Append(user_queries[u], requests'[r].at)
      ]_vars

\* Two requests of the bypassed caller were admitted and recorded more than an
\* hour apart; a check of the caller has returned and both timestamps are
\* still in its sequence.
C29_Witness ==
    /\ Checked
    /\ ret.user \in admin_user_ids
    /\ ret.allowed
    /\ ret.before = user_queries[ret.user]
    /\ Len(user_queries[ret.user]) = 2
    /\ ret.at - user_queries[ret.user][1] > HourWindow * TicksPerSec
    /\ \A r \in DOMAIN requests : requests[r].user = ret.user /\ requests[r].state = "admitted"

====
